---- MODULE Spec2Model ----
(***************************************************************************)
(* A model of turboworks' optimization loop, OptTask (optimize.py).       *)
(*                                                                         *)
(* Python values.  A scalar is a record [t, n]: t is its Python type       *)
(* ("int", "float", "str") and n its value: the integer itself, a float in *)
(* hundredths (F(150) is 1.5), or the number of a label (S(1) is "red",    *)
(* S(2) is "blue").  A Python list or tuple is a record [kind, v] with v   *)
(* the sequence of its items: Python never finds a list equal to a tuple,  *)
(* so the kind is part of the value.  What is stored in the Mongo          *)
(* collection is a BSON array, a plain sequence, read back as a list.      *)
(***************************************************************************)
EXTENDS Integers, Sequences, FiniteSets, TLC

\* ------------------------------------------------------------------ bounds
\* Number of documents in the collection before the first invocation.
MaxPre == 1
\* Number of history points given to _dupe_check when it is run alone.
MaxHist == 2

\* test_parallel.py runs n_processes workflows at once, each ending in one
\* invocation of OptTask.run_task.
n_processes == 2

Tasks == 1..n_processes

\* ----------------------------------------------------------- Python values
I(n) == [t |-> "int", n |-> n]
F(n) == [t |-> "float", n |-> n]
S(n) == [t |-> "str", n |-> n]

\* references.dtypes: the type lists the code tests type(v) against.
dtypes_ints(s) == s.t = "int"
dtypes_floats(s) == s.t = "float"
dtypes_numbers(s) == s.t \in {"int", "float"}
dtypes_others(s) == s.t = "str"
dtypes_discrete(s) == s.t \in {"int", "str"}

\* The numeric value of an int or a float, in hundredths.
Num(s) == IF s.t = "int" THEN 100 * s.n ELSE s.n

\* Python's == on two scalars: numbers compare by value, a str equals only
\* the same str.
ScalarEq(a, b) ==
    IF dtypes_numbers(a) /\ dtypes_numbers(b) THEN Num(a) = Num(b) ELSE a = b

\* == on two sequences of scalars, item by item.
ItemsEq(u, v) ==
    /\ Len(u) = Len(v)
    /\ \A i \in 1..Len(u) : ScalarEq(u[i], v[i])

PyList(v) == [kind |-> "list", v |-> v]
PyTuple(v) == [kind |-> "tuple", v |-> v]

\* Python's == on lists and tuples: a list is never equal to a tuple.
PyEq(a, b) == a.kind = b.kind /\ ItemsEq(a.v, b.v)

\* Python's `a in seq`.
PyIn(a, seq) == \E i \in 1..Len(seq) : PyEq(a, seq[i])

\* Python's list.remove(a): drops the first item equal to a.
RECURSIVE PyRemove(_, _)
PyRemove(seq, a) ==
    IF seq = <<>> THEN <<>>
    ELSE IF PyEq(a, Head(seq)) THEN Tail(seq)
    ELSE <<Head(seq)>> \o (CHOOSE r \in {PyRemove(t, a) : t \in {Tail(seq)}} : TRUE)

\* A faulty variant of range: the upper bound is left out.
RECURSIVE PyRange_exclusive(_, _)
PyRange_exclusive(lower, upper) ==
    IF lower >= upper THEN <<>>
    ELSE <<I(lower)>> \o PyRange_exclusive(lower + 1, upper)

\* range(lower, upper + 1) as a list of ints.
RECURSIVE PyRange(_, _)
PyRange(lower, upper) ==
    IF lower > upper THEN <<>> ELSE <<I(lower)>> \o PyRange(lower + 1, upper)

\* ------------------------------------------------------------ _is_discrete
\* The loop of lines 114-117 from dimension i on: "True", "False", or
\* "IndexError" when dim[1] is read from a dimension of one item.
RECURSIVE is_discrete_from(_, _)
is_discrete_from(dims, i) ==
    IF i > Len(dims) THEN "True"
    ELSE IF ~dtypes_discrete(dims[i][1]) THEN "False"
    ELSE IF Len(dims[i]) < 2 THEN "IndexError"
    ELSE IF ~dtypes_discrete(dims[i][2]) THEN "False"
    ELSE is_discrete_from(dims, i + 1)

\* True when no dimension has a non-discrete type at dim[0] or dim[1].
_is_discrete(dims) == is_discrete_from(dims, 1) = "True"

\* ------------------------------------------------ _calculate_discrete_space
\* The values of one dimension: [ok, err, vals].  Only dim[0] is tested:
\* with an int there, range(lower, upper + 1) raises TypeError for a float
\* upper; with a float there, line 147 raises ValueError.
dimspace(dim) ==
    IF dtypes_ints(dim[1])
    THEN IF dtypes_ints(dim[2])
         THEN [ok |-> TRUE, err |-> "none", vals |-> PyRange(dim[1].n, dim[2].n)]
         ELSE [ok |-> FALSE, err |-> "TypeError", vals |-> <<>>]
    ELSE IF dtypes_floats(dim[1])
    THEN [ok |-> FALSE, err |-> "ValueError", vals |-> <<>>]
    ELSE [ok |-> TRUE, err |-> "none", vals |-> dim]

\* A faulty variant of the product: the first dimension varies fastest.
RECURSIVE product_first_fastest(_)
product_first_fastest(total) ==
    IF total = <<>> THEN << <<>> >>
    ELSE LET rest == product_first_fastest(SubSeq(total, 1, Len(total) - 1))
             last == total[Len(total)]
             row(a) == [j \in 1..Len(rest) |-> rest[j] \o <<a>>]
             RECURSIVE rows(_)
             rows(k) == IF k > Len(last) THEN <<>>
                        ELSE row(last[k]) \o rows(k + 1)
         IN rows(1)

\* itertools.product(*total_dimspace): tuples' items, the last dimension
\* varying fastest.
RECURSIVE product(_)
product(total) ==
    IF total = <<>> THEN << <<>> >>
    ELSE LET rest == product(Tail(total))
             first == Head(total)
             row(a) == [j \in 1..Len(rest) |-> <<a>> \o rest[j]]
             RECURSIVE rows(_)
             rows(k) == IF k > Len(first) THEN <<>>
                        ELSE row(first[k]) \o rows(k + 1)
         IN rows(1)

\* The error the loop of lines 139-150 raises: that of the first dimension
\* that fails.
first_error(total_dimspace) ==
    total_dimspace[CHOOSE i \in 1..Len(total_dimspace) :
                      /\ ~total_dimspace[i].ok
                      /\ \A j \in 1..(i - 1) : total_dimspace[j].ok].err

\* [ok, err, pts]: ok is FALSE when the loop raised err; pts are one-item
\* lists for one dimension and tuples for several.
_calculate_discrete_space(dims) ==
    LET total_dimspace == [i \in 1..Len(dims) |-> dimspace(dims[i])]
        vals == [i \in 1..Len(dims) |-> total_dimspace[i].vals]
    IN IF \E i \in 1..Len(dims) : ~total_dimspace[i].ok
       THEN [ok |-> FALSE, err |-> first_error(total_dimspace), pts |-> <<>>]
       ELSE IF Len(dims) = 1
       THEN [ok |-> TRUE, err |-> "none",
             pts |-> [k \in 1..Len(vals[1]) |-> PyList(<<vals[1][k]>>)]]
       ELSE [ok |-> TRUE, err |-> "none",
             pts |-> LET p == product(vals)
                     IN [k \in 1..Len(p) |-> PyTuple(p[k])]]

\* -------------------------------------------------------------- documents
\* A document of the collection: keys are the fields it carries; a field it
\* does not carry holds an empty value that no step reads.
Keys == {"x", "y", "z", "x_new", "z_new"}

NewDoc(keys, x_, y_, z_) ==
    [keys |-> keys, x |-> x_, y |-> y_, z |-> z_, x_new |-> <<>>, z_new |-> <<>>]

\* _store(spec): insert_one appends the document {'z': z, 'y': y, 'x': x};
\* its inserted_id is its place in the collection.
_store_insert(coll, x_, y_, z_) == Append(coll, NewDoc({"x", "y", "z"}, x_, y_, z_))

\* A faulty variant of the update: the update flag is lost and the fields are
\* inserted as a new document.
_store_update_as_insert(coll, id_, z_new_, x_new_) ==
    Append(coll, [keys |-> {"x_new", "z_new"}, x |-> <<>>, y |-> 0, z |-> <<>>,
                  x_new |-> x_new_, z_new |-> z_new_])

\* A faulty variant of the update: the document is replaced by the fields
\* given, as an update without $set does.
_store_update_replace(coll, id_, z_new_, x_new_) ==
    [coll EXCEPT ![id_] = [keys |-> {"x_new", "z_new"}, x |-> <<>>, y |-> 0,
                           z |-> <<>>, x_new |-> x_new_, z_new |-> z_new_]]

\* _store(spec, update=True, id=id): $set of z_new and x_new on document id.
_store_update(coll, id_, z_new_, x_new_) ==
    [coll EXCEPT ![id_] = [@ EXCEPT !.keys = @ \cup {"x_new", "z_new"},
                                    !.x_new = x_new_,
                                    !.z_new = z_new_]]

\* -------------------------------------------------------------- _dupe_check
\* tuple(doc['x']).
doc_point(doc) == PyTuple(doc.x)

\* Lines 168-172: the enumerated space less every document's x.
RECURSIVE remove_seen(_, _)
remove_seen(avail, docs) ==
    IF docs = <<>> THEN avail
    ELSE CHOOSE r \in {remove_seen(a, rest) :
                          a \in {IF PyIn(doc_point(Head(docs)), avail)
                                  THEN PyRemove(avail, doc_point(Head(docs)))
                                  ELSE avail},
                          rest \in {Tail(docs)}} : TRUE

\* A faulty variant: the candidates stored as x_new are removed as well.
compute_available_x_less_candidates(X_dim, coll) ==
    remove_seen(remove_seen(_calculate_discrete_space(X_dim).pts, coll),
                [k \in 1..Len(coll) |-> [coll[k] EXCEPT !.x = coll[k].x_new]])

compute_available_x(X_dim, coll) ==
    CHOOSE r \in {remove_seen(pts, coll) :
                     pts \in {_calculate_discrete_space(X_dim).pts}} : TRUE

\* The outcomes of _dupe_check(x, X_dim) on the collection coll, x being a
\* list or a tuple: a raised error, or a returned value (any item of
\* available_x when random.choice draws it).
_dupe_check(x_, X_dim, coll) ==
    IF ~_calculate_discrete_space(X_dim).ok
    THEN {[kind |-> "InfiniteSpace", val |-> x_, avail |-> <<>>]}
    ELSE IF \E k \in 1..Len(coll) : "x" \notin coll[k].keys
    THEN {[kind |-> "KeyError", val |-> x_, avail |-> <<>>]}
    ELSE UNION {IF Len(available) = 0
                THEN {[kind |-> "ExhaustedSpace", val |-> x_, avail |-> available]}
                ELSE IF PyIn(x_, available)
                THEN {[kind |-> "ok", val |-> x_, avail |-> available]}
                ELSE {[kind |-> "ok", val |-> available[k], avail |-> available] :
                         k \in 1..Len(available)} :
                available \in {compute_available_x(X_dim, coll)}}

\* ------------------------------------------------------------------ _Z_dims
\* Arithmetic of lines 225-229 on scalars (floats in hundredths).
less5pc(s) == F((Num(s) * 95) \div 100)
plus5pc(s) == F((Num(s) * 105) \div 100)
less1(s) == IF dtypes_ints(s) THEN I(s.n - 1) ELSE F(s.n - 100)
plus1(s) == IF dtypes_ints(s) THEN I(s.n + 1) ELSE F(s.n + 100)

ScalarIn(a, seq) == \E k \in 1..Len(seq) : ScalarEq(a, seq[k])

\* The state of the loops of lines 202-215.  dims[i] is [cat, lo, hi]: with
\* cat FALSE it is the list [lo, hi] made at line 197, with cat TRUE it is
\* the one list cat_values (line 208 stores the same list at every
\* categorical position).  err is the error raised, or "none".
\* One pass of the inner loop body: position i, value zi.
z_dims_item(st, zi, i) ==
    IF dtypes_others(zi)
    THEN IF ~ScalarIn(zi, st.cat_values)
         THEN [st EXCEPT !.cat_values = Append(@, zi), !.dims[i].cat = TRUE]
         ELSE st
    ELSE IF st.dims[i].cat \/ ~dtypes_numbers(st.dims[i].lo)
    THEN [st EXCEPT !.err = "TypeError"]
    ELSE IF Num(zi) < Num(st.dims[i].lo)
    THEN [st EXCEPT !.dims[i].lo = zi]
    ELSE IF Num(zi) > Num(st.dims[i].hi)
    THEN [st EXCEPT !.dims[i].hi = zi]
    ELSE st

\* The inner loop over the positions i..len(dims) for one z.
RECURSIVE z_dims_row(_, _, _)
z_dims_row(st, z_, i) ==
    IF st.err # "none" \/ i > Len(st.dims) THEN st
    ELSE IF i > Len(z_) THEN [st EXCEPT !.err = "IndexError"]
    ELSE CHOOSE r \in {z_dims_row(s, z_, i + 1) :
                          s \in {z_dims_item(st, z_[i], i)}} : TRUE

\* The outer loop over Z.
RECURSIVE z_dims_rows(_, _)
z_dims_rows(st, Z) ==
    IF Z = <<>> \/ st.err # "none" THEN st
    ELSE CHOOSE r \in {z_dims_rows(s, rest) :
                          s \in {z_dims_row(st, Head(Z), 1)},
                          rest \in {Tail(Z)}} : TRUE

\* A faulty variant of the widening: low and high are not swapped.
z_dims_widen_no_swap(dim, cat_values) ==
    IF dim.cat THEN cat_values
    ELSE IF ~dtypes_numbers(dim.lo) THEN <<dim.lo, dim.hi>>
    ELSE IF dtypes_floats(dim.lo) THEN <<less5pc(dim.lo), plus5pc(dim.hi)>>
    ELSE <<less1(dim.lo), plus1(dim.hi)>>

\* Lines 219-234 on one dimension; dims == check holds always, check being
\* the same list as dims, so every numeric dimension is widened.
z_dims_widen(dim, cat_values) ==
    IF dim.cat THEN cat_values
    ELSE IF ~dtypes_numbers(dim.lo) THEN <<dim.lo, dim.hi>>
    ELSE LET lo == IF dtypes_floats(dim.lo) THEN less5pc(dim.lo) ELSE less1(dim.lo)
             hi == IF dtypes_floats(dim.lo) THEN plus5pc(dim.hi) ELSE plus1(dim.hi)
         IN IF Num(lo) > Num(hi) THEN <<hi, lo>> ELSE <<lo, hi>>

\* [err, dims]: the dimensions inferred from every document's z.
_Z_dims(coll) ==
    IF \E k \in 1..Len(coll) : "z" \notin coll[k].keys
    THEN [err |-> "KeyError", dims |-> <<>>]
    ELSE IF coll = <<>>
    THEN [err |-> "IndexError", dims |-> <<>>]
    ELSE LET Z == [k \in 1..Len(coll) |-> coll[k].z]
             st0 == [dims |-> [i \in 1..Len(Z[1]) |->
                                 [cat |-> FALSE, lo |-> Z[1][i], hi |-> Z[1][i]]],
                     cat_values |-> <<>>,
                     err |-> "none"]
             st == z_dims_rows(st0, Z)
         IN [err |-> st.err,
             dims |-> IF st.err # "none" THEN <<>>
                      ELSE [i \in 1..Len(st.dims) |->
                              z_dims_widen(st.dims[i], st.cat_values)]]

\* ------------------------------------------------------------------- state
VARIABLES
    collection,       \* self.collection: the documents, in insertion order
    dimensions,       \* self['dimensions'] (X_dims)
    duplicate_check,  \* self['duplicate_check']: "absent", "False" or "True"
    max_on,           \* self['max'] if 'max' in self else False
    wf_creator_args,   \* the kind of value self['wf_creator_args'] is
    wf_creator_kwargs, \* the kind of value self['wf_creator_kwargs'] is
    addressing,       \* how the task names the database (lines 270-293)
    pc,               \* where each invocation of run_task stands
    x, y, z,          \* run_task's x, y and z
    id,               \* the inserted_id of the invocation's document
    X_tot, Y,         \* the history handed to the predictor
    X_tot_dims,       \* the dimensions handed to the predictor
    x_tot_new,        \* the predictor's output
    x_new, z_new,     \* the candidate and the new z
    available_x,      \* _dupe_check's available_x when it returned
    err,              \* the exception that ended the invocation, or "none"
    err_args,         \* what the ValueError of line 335 was formatted with
    action,           \* the FWAction returned: wf_creator's argument and the id
    seen,             \* the documents lines 311-314 appended to X_tot
    n_ins, n_upd,     \* how many inserts and updates the invocation has made
    n_pre,            \* how many documents the collection held at the start
    g_pc, g_x, g_out  \* a method run alone: its position, its argument x and
                      \* its outcome

task_vars == <<pc, x, y, z, id, X_tot, Y, X_tot_dims, x_tot_new, x_new, z_new,
               available_x, err, err_args, action, seen, n_ins, n_upd>>
config_vars == <<dimensions, duplicate_check, max_on, wf_creator_args,
                 wf_creator_kwargs, addressing, n_pre>>
guard_vars == <<g_pc, g_x, g_out>>
vars == <<collection, config_vars, task_vars, guard_vars>>

\* -------------------------------------------------------------- the inputs
\* The declared spaces of the concurrent runs: [(1,2)], [(1,1)],
\* [(1,1),("red","blue")] and [(1.0,2.0)].
Spaces ==
    { << <<I(1), I(2)>> >>,
      << <<I(1), I(1)>> >>,
      << <<I(1), I(1)>>, <<S(1), S(2)>> >>,
      << <<F(100), F(200)>> >> }

\* The values x takes in one dimension: all of them when the dimension is
\* discrete, its two bounds when it is a float range.
DimValues(dim) == IF dimspace(dim).ok THEN dimspace(dim).vals ELSE dim

SeqRange(seq) == {seq[k] : k \in 1..Len(seq)}

\* The input vectors of a space, each a list of len(dims) items.
XInputs(dims) == SeqRange(product([i \in 1..Len(dims) |-> DimValues(dims[i])]))

YInputs == {2}
ZInputs == {<<>>, <<I(3)>>}

\* The kinds of wf_creator_args and wf_creator_kwargs, and the ways the
\* database is named: host, port and name; only some of the three; lpad;
\* only _add_launchpad_and_fw_id in fw_spec; nothing.
ArgKinds == {"list", "tuple", "str"}
KwargKinds == {"dict", "list"}
Addressing == {"host_port_name", "partial", "lpad", "fw_spec_flag", "none"}

\* Documents the collection may hold before the first invocation: one an
\* earlier invocation completed, one written by another client without z,
\* and one in ManageDB's {input, output} layout.
PreDocs(dims) ==
    LET x0 == product([i \in 1..Len(dims) |-> DimValues(dims[i])])[1]
    IN { _store_update(_store_insert(<<>>, x0, 1, <<>>), 1, <<>>, x0)[1],
         NewDoc({"x", "y"}, x0, 1, <<>>),
         NewDoc({}, <<>>, 0, <<>>) }

PreCollections(dims) == UNION {[1..n -> PreDocs(dims)] : n \in 0..MaxPre}

\* ---------------------------------------------------------------- run_task
\* Lines 258-298: the error raised before the database is opened, or "none".
\* A tuple is no list, so line 259 raises for it; with only
\* _add_launchpad_and_fw_id in fw_spec no branch binds host, port and name,
\* and line 296 reads them unbound.
start_error(args, kwargs, addr) ==
    IF args # "list" THEN "TypeError"
    ELSE IF kwargs # "dict" THEN "TypeError"
    ELSE IF addr = "partial" THEN "AttributeError"
    ELSE IF addr = "fw_spec_flag" THEN "UnboundLocalError"
    ELSE IF addr = "none" THEN "AttributeError"
    ELSE "none"

\* A faulty variant of the failure path: the candidate fields are stored on
\* the way out, as a finally clause would.
Fail_and_store(p, e) ==
    /\ pc' = [pc EXCEPT ![p] = "Failed"]
    /\ err' = [err EXCEPT ![p] = e]
    /\ collection' = IF id[p] = 0 THEN collection
                     ELSE _store_update(collection, id[p], z_new[p].v, x_new[p].v)
    /\ UNCHANGED <<config_vars, guard_vars, x, y, z, id, X_tot, Y,
                   X_tot_dims, x_tot_new, x_new, z_new, available_x, action,
                   seen, n_ins, n_upd>>

\* An exception leaves run_task: nothing else is written.
Fail(p, e) ==
    /\ pc' = [pc EXCEPT ![p] = "Failed"]
    /\ err' = [err EXCEPT ![p] = e]
    /\ UNCHANGED <<collection, config_vars, guard_vars, x, y, z, id, X_tot, Y,
                   X_tot_dims, x_tot_new, x_new, z_new, available_x, action,
                   seen, n_ins, n_upd>>

\* Lines 250-304: read the inputs, check the parameters, insert {z, y, x}.
Persist(p) ==
    /\ pc[p] = "Start"
    /\ \E xin \in XInputs(dimensions), yin \in YInputs, zin \in ZInputs :
          IF start_error(wf_creator_args, wf_creator_kwargs, addressing) # "none"
          THEN /\ Fail(p, start_error(wf_creator_args, wf_creator_kwargs, addressing))
               /\ UNCHANGED err_args
          ELSE /\ x' = [x EXCEPT ![p] = xin]
               /\ y' = [y EXCEPT ![p] = yin]
               /\ z' = [z EXCEPT ![p] = zin]
               /\ collection' = _store_insert(collection, xin, yin, zin)
               /\ id' = [id EXCEPT ![p] = Len(collection) + 1]
               /\ n_ins' = [n_ins EXCEPT ![p] = @ + 1]
               /\ pc' = [pc EXCEPT ![p] = "Persisted"]
               /\ UNCHANGED <<config_vars, guard_vars, X_tot, Y, X_tot_dims,
                              x_tot_new, x_new, z_new, available_x, err_args, err,
                              action, seen, n_upd>>

\* Faulty variants of the read protection: one asks for the candidate fields
\* as well, one forgets z.
has_all_fields(doc) == \A k \in {"x", "y", "z", "x_new", "z_new"} : k \in doc.keys
has_xy(doc) == \A k \in {"x", "y"} : k \in doc.keys

\* Line 312, the concurrency read protection.
has_xyz(doc) == \A k \in {"x", "y", "z"} : k \in doc.keys

\* A faulty variant of the loop: the document inserted last is left out, as
\* a find() made before the insert leaves it out.
RECURSIVE complete_ids_but_last(_, _)
complete_ids_but_last(coll, k) ==
    IF k >= Len(coll) THEN <<>>
    ELSE (IF has_xyz(coll[k]) THEN <<k>> ELSE <<>>)
             \o complete_ids_but_last(coll, k + 1)

\* Lines 311-314: the places of the documents the loop appends, in order.
RECURSIVE complete_ids(_, _)
complete_ids(coll, k) ==
    IF k > Len(coll) THEN <<>>
    ELSE (IF has_xyz(coll[k]) THEN <<k>> ELSE <<>>) \o complete_ids(coll, k + 1)

\* A faulty variant of line 318: max is not looked at.
signed_ignoring_max(max_, y_) == y_

\* Line 318.
signed(max_, y_) == IF max_ THEN (-1) * y_ ELSE y_

\* Lines 306-321 up to the test of z: X_tot and Y from one find(); with an
\* empty z the dimensions are X_dims and no second find() is made.
ReadHistory(p) ==
    /\ pc[p] = "Persisted"
    /\ LET ids == complete_ids(collection, 1)
       IN /\ seen' = [seen EXCEPT ![p] = ids]
          /\ X_tot' = [X_tot EXCEPT ![p] =
                 [k \in 1..Len(ids) |-> collection[ids[k]].x \o collection[ids[k]].z]]
          /\ Y' = [Y EXCEPT ![p] =
                 [k \in 1..Len(ids) |-> signed(max_on, collection[ids[k]].y)]]
    /\ IF z[p] # <<>>
       THEN /\ pc' = [pc EXCEPT ![p] = "HistoryRead"]
            /\ UNCHANGED X_tot_dims
       ELSE /\ pc' = [pc EXCEPT ![p] = "SpaceBuilt"]
            /\ X_tot_dims' = [X_tot_dims EXCEPT ![p] = dimensions]
    /\ UNCHANGED <<collection, config_vars, guard_vars, x, y, z, id, x_tot_new,
                   x_new, z_new, available_x, err_args, err, action, n_ins, n_upd>>

\* Line 321 with z non-empty: X_dims + self._Z_dims, a second find().
BuildSpace(p) ==
    /\ pc[p] = "HistoryRead"
    /\ IF _Z_dims(collection).err # "none"
       THEN /\ Fail(p, _Z_dims(collection).err)
            /\ UNCHANGED err_args
       ELSE /\ X_tot_dims' = [X_tot_dims EXCEPT ![p] =
                                 dimensions \o _Z_dims(collection).dims]
            /\ pc' = [pc EXCEPT ![p] = "SpaceBuilt"]
            /\ UNCHANGED <<collection, config_vars, guard_vars, x, y, z, id,
                           X_tot, Y, x_tot_new, x_new, z_new, available_x, err_args, err,
                           action, seen, n_ins, n_upd>>

\* The predictors: a skopt minimizer, a custom function that returns a
\* point, and two custom functions that raise.
Predictors ==
    {"forest_minimize", "custom.returns", "custom.raises_KeyError",
     "custom.raises_ZeroDivisionError"}

\* str(E) of the exception E the custom function raises, or "none" when it
\* returns.
raised(predictor) ==
    IF predictor = "custom.raises_KeyError" THEN "'k'"
    ELSE IF predictor = "custom.raises_ZeroDivisionError" THEN "division by zero"
    ELSE "none"

NoArgs == [predictor |-> "none", E |-> "none"]

\* A faulty variant of line 335: the cause is left out of the message.
format_args_without_cause(predictor, E) == [predictor |-> predictor, E |-> ""]

\* Line 335: "... {} did not call correctly! \n {}".format(predictor, E).
format_args(predictor, E) == [predictor |-> predictor, E |-> E]

\* Lines 324-335: what the predictor yields on the dimensions dims_tot, the
\* first nx of them being X_dims: a list holding any point of X_dims followed
\* by a value of each z dimension (its first item), or, for a custom
\* predictor that raises, the exception line 335 raises in its place.
predictor_outcomes(predictor, dims_tot, nx) ==
    LET zpart == [i \in 1..(Len(dims_tot) - nx) |-> dims_tot[nx + i][1]]
        points == {[kind |-> "ok", val |-> PyList(xpart \o zpart), args |-> NoArgs] :
                     xpart \in XInputs(SubSeq(dims_tot, 1, nx))}
    IN IF raised(predictor) # "none"
       THEN {[kind |-> "PredictorError", val |-> PyList(<<>>),
              args |-> format_args(predictor, raised(predictor))]}
       ELSE points

\* A faulty variant of the slice: it starts at the first item always.
PySlice_from_start(a, from, to) == [kind |-> a.kind, v |-> SubSeq(a.v, 1, to)]

\* A slice of a list or tuple keeps its kind.
PySlice(a, from, to) == [kind |-> a.kind, v |-> SubSeq(a.v, from, to)]

\* Lines 323-338: run the predictor and split its output at len(x).
Predict(p) ==
    /\ pc[p] = "SpaceBuilt"
    /\ \E predictor \in Predictors :
       \E out \in predictor_outcomes(predictor, X_tot_dims[p], Len(dimensions)) :
          IF out.kind # "ok"
          THEN /\ Fail(p, out.kind)
               /\ err_args' = [err_args EXCEPT ![p] = out.args]
          ELSE /\ x_tot_new' = [x_tot_new EXCEPT ![p] = out.val]
               /\ x_new' = [x_new EXCEPT ![p] = PySlice(out.val, 1, Len(x[p]))]
               /\ z_new' = [z_new EXCEPT ![p] =
                               PySlice(out.val, Len(x[p]) + 1, Len(out.val.v))]
               /\ pc' = [pc EXCEPT ![p] = "Predicted"]
               /\ UNCHANGED <<collection, config_vars, guard_vars, x, y, z, id,
                              X_tot, Y, X_tot_dims, available_x, err_args, err, action,
                              seen, n_ins, n_upd>>

\* A faulty variant of the test: the value of duplicate_check is not looked at.
guard_on_if_present == duplicate_check # "absent" /\ _is_discrete(dimensions)

\* Lines 341-343: whether _dupe_check is called.
guard_on == duplicate_check = "True" /\ _is_discrete(dimensions)

\* Line 344: the point handed to _dupe_check is x, the list run_task read
\* from fw_spec.
dupe_check_arg(p) == PyList(x[p])

\* Line 344: x_new = self._dupe_check(x, X_dims), a third find().
DupeCheck(p) ==
    /\ pc[p] = "Predicted"
    /\ guard_on
    /\ \E out \in _dupe_check(dupe_check_arg(p), dimensions, collection) :
          IF out.kind # "ok"
          THEN /\ Fail(p, out.kind)
               /\ UNCHANGED err_args
          ELSE /\ x_new' = [x_new EXCEPT ![p] = out.val]
               /\ available_x' = [available_x EXCEPT ![p] = out.avail]
               /\ pc' = [pc EXCEPT ![p] = "DuplicateResolved"]
               /\ UNCHANGED <<collection, config_vars, guard_vars, x, y, z, id,
                              X_tot, Y, X_tot_dims, x_tot_new, z_new, err_args, err,
                              action, seen, n_ins, n_upd>>

\* A faulty variant of the update: it waits until no other invocation
\* stands between its insert and its update.
Store_waits_for_others(p) ==
    /\ pc[p] = IF guard_on THEN "DuplicateResolved" ELSE "Predicted"
    /\ \A q \in Tasks \ {p} : id[q] = 0 \/ pc[q] \in {"Stored", "Done", "Failed"}
    /\ collection' = _store_update(collection, id[p], z_new[p].v, x_new[p].v)
    /\ n_upd' = [n_upd EXCEPT ![p] = @ + 1]
    /\ pc' = [pc EXCEPT ![p] = "Stored"]
    /\ UNCHANGED <<config_vars, guard_vars, x, y, z, id, X_tot, Y, X_tot_dims,
                   x_tot_new, x_new, z_new, available_x, err_args, err, action,
                   seen, n_ins>>

\* Line 347: update the invocation's document with z_new and x_new.
Store(p) ==
    /\ pc[p] = IF guard_on THEN "DuplicateResolved" ELSE "Predicted"
    /\ collection' = _store_update(collection, id[p], z_new[p].v, x_new[p].v)
    /\ n_upd' = [n_upd EXCEPT ![p] = @ + 1]
    /\ pc' = [pc EXCEPT ![p] = "Stored"]
    /\ UNCHANGED <<config_vars, guard_vars, x, y, z, id, X_tot, Y, X_tot_dims,
                   x_tot_new, x_new, z_new, available_x, err_args, err, action, seen,
                   n_ins>>

\* A faulty variant of the return: the id is that of the document inserted
\* last, whoever inserted it.
Return_latest_id(p) ==
    /\ pc[p] = "Stored"
    /\ action' = [action EXCEPT ![p] =
                     [called |-> TRUE, x_new |-> x_new[p],
                      args |-> wf_creator_args, kwargs |-> wf_creator_kwargs,
                      optimization_id |-> Len(collection)]]
    /\ pc' = [pc EXCEPT ![p] = "Done"]
    /\ UNCHANGED <<collection, config_vars, guard_vars, x, y, z, id, X_tot, Y,
                   X_tot_dims, x_tot_new, x_new, z_new, available_x, err_args,
                   err, seen, n_ins, n_upd>>

\* Lines 350-351: wf_creator(x_new, ...) and the FWAction with the id.
Return(p) ==
    /\ pc[p] = "Stored"
    /\ action' = [action EXCEPT ![p] =
                     [called |-> TRUE, x_new |-> x_new[p],
                      args |-> wf_creator_args, kwargs |-> wf_creator_kwargs,
                      optimization_id |-> id[p]]]
    /\ pc' = [pc EXCEPT ![p] = "Done"]
    /\ UNCHANGED <<collection, config_vars, guard_vars, x, y, z, id, X_tot, Y,
                   X_tot_dims, x_tot_new, x_new, z_new, available_x, err_args, err, seen,
                   n_ins, n_upd>>

\* ------------------------------------------------------- the specification
NoCall == [called |-> FALSE, x_new |-> PyList(<<>>), args |-> "none",
           kwargs |-> "none", optimization_id |-> 0]
NoOutcome == [kind |-> "none", val |-> PyList(<<>>), avail |-> <<>>]

TasksIdle ==
    /\ pc = [p \in Tasks |-> "Start"]
    /\ x = [p \in Tasks |-> <<>>]
    /\ y = [p \in Tasks |-> 0]
    /\ z = [p \in Tasks |-> <<>>]
    /\ id = [p \in Tasks |-> 0]
    /\ X_tot = [p \in Tasks |-> <<>>]
    /\ Y = [p \in Tasks |-> <<>>]
    /\ X_tot_dims = [p \in Tasks |-> <<>>]
    /\ x_tot_new = [p \in Tasks |-> PyList(<<>>)]
    /\ x_new = [p \in Tasks |-> PyList(<<>>)]
    /\ z_new = [p \in Tasks |-> PyList(<<>>)]
    /\ available_x = [p \in Tasks |-> <<>>]
    /\ err = [p \in Tasks |-> "none"]
    /\ err_args = [p \in Tasks |-> NoArgs]
    /\ action = [p \in Tasks |-> NoCall]
    /\ seen = [p \in Tasks |-> <<>>]
    /\ n_ins = [p \in Tasks |-> 0]
    /\ n_upd = [p \in Tasks |-> 0]

\* n_processes invocations of run_task, sharing one collection and one set of
\* OptTask parameters, run concurrently.
Init ==
    /\ dimensions \in Spaces
    /\ duplicate_check \in {"absent", "False", "True"}
    /\ max_on \in BOOLEAN
    /\ wf_creator_args \in ArgKinds
    /\ wf_creator_kwargs \in KwargKinds
    /\ addressing \in Addressing
    /\ collection \in PreCollections(dimensions)
    /\ n_pre = Len(collection)
    /\ TasksIdle
    /\ g_pc = "off"
    /\ g_x = PyList(<<>>)
    /\ g_out = NoOutcome

Next ==
    \E p \in Tasks :
        \/ Persist(p)
        \/ ReadHistory(p)
        \/ BuildSpace(p)
        \/ Predict(p)
        \/ DupeCheck(p)
        \/ Store(p)
        \/ Return(p)

Spec == Init /\ [][Next]_vars

\* The steps of one invocation.
run_task(p) ==
    \/ Persist(p)
    \/ ReadHistory(p)
    \/ BuildSpace(p)
    \/ Predict(p)
    \/ DupeCheck(p)
    \/ Store(p)
    \/ Return(p)

\* The invocations of a task whose parameters pass the checks of lines
\* 258-293, minimizing, with the duplicate check requested (it runs on the
\* discrete spaces only), on any of the spaces and collections of Init.
InitLive ==
    /\ Init
    /\ wf_creator_args = "list"
    /\ wf_creator_kwargs = "dict"
    /\ addressing = "host_port_name"
    /\ max_on = FALSE
    /\ duplicate_check = "True"

\* Each invocation runs in a process of its own (a rocket launch) that goes
\* on executing run_task's statements: a step that stays possible is taken.
SpecLive == InitLive /\ [][Next]_vars /\ \A p \in Tasks : WF_vars(run_task(p))

\* ------------------------------------------------------ _dupe_check alone
\* The declared spaces _dupe_check is run on: [(1,2)], [(1,1)], [(1,5)],
\* [(1,1),(1,2)] and [(1,2),("red","blue")], all totally discrete.
GuardSpaces ==
    { << <<I(1), I(2)>> >>,
      << <<I(1), I(1)>> >>,
      << <<I(1), I(5)>> >>,
      << <<I(1), I(1)>>, <<I(1), I(2)>> >>,
      << <<I(1), I(2)>>, <<S(1), S(2)>> >> }

\* The histories: up to MaxHist evaluated points of the space, as documents.
Histories(dims) ==
    UNION {[1..n -> {NewDoc({"x", "y", "z"}, v, 2, <<>>) : v \in XInputs(dims)}] :
             n \in 0..MaxHist}

\* _dupe_check(x, X_dim) is about to be called with a list x of the space,
\* the collection holding a history.
InitGuard ==
    /\ dimensions \in GuardSpaces
    /\ duplicate_check = "True"
    /\ max_on = FALSE
    /\ wf_creator_args = "list"
    /\ wf_creator_kwargs = "dict"
    /\ addressing = "host_port_name"
    /\ collection \in Histories(dimensions)
    /\ n_pre = Len(collection)
    /\ TasksIdle
    /\ g_pc = "call"
    /\ g_x \in {PyList(v) : v \in XInputs(dimensions)}
    /\ g_out = NoOutcome

\* Lines 154-182: one call of _dupe_check.
GuardCall ==
    /\ g_pc = "call"
    /\ g_out' \in _dupe_check(g_x, dimensions, collection)
    /\ g_pc' = "returned"
    /\ UNCHANGED <<collection, config_vars, task_vars, g_x>>

NextGuard == GuardCall

SpecGuard == InitGuard /\ [][NextGuard]_vars

\* ------------------------- _is_discrete and _calculate_discrete_space alone
\* Number of dimensions of the spaces the two methods are run on.
MaxDims == 2

\* The dimensions: the int ranges (1,1), (1,2) and (2,4), the label lists
\* ("red","blue"), ("red",) and ("blue","red","green"), and the ranges with
\* a float bound (1.0,2.0), (1,2.5) and (1.5,2).
EnumDims ==
    { <<I(1), I(1)>>, <<I(1), I(2)>>, <<I(2), I(4)>>,
      <<S(1), S(2)>>, <<S(1)>>, <<S(2), S(1), S(3)>>,
      <<F(100), F(200)>>, <<I(1), F(250)>>, <<F(150), I(2)>> }

EnumSpaces == UNION {[1..n -> EnumDims] : n \in 1..MaxDims}

\* One of the two methods is about to be called on self['dimensions'].
InitEnum ==
    /\ dimensions \in EnumSpaces
    /\ duplicate_check = "True"
    /\ max_on = FALSE
    /\ wf_creator_args = "list"
    /\ wf_creator_kwargs = "dict"
    /\ addressing = "host_port_name"
    /\ collection = <<>>
    /\ n_pre = 0
    /\ TasksIdle
    /\ g_pc = "call"
    /\ g_x = PyList(<<>>)
    /\ g_out = NoOutcome

\* Lines 120-152: a call of _calculate_discrete_space(dims), and a second
\* call on the same dims.
DiscreteSpaceCall ==
    /\ g_pc \in {"call", "enumerated"}
    /\ g_out' = _calculate_discrete_space(dimensions)
    /\ g_pc' = IF g_pc = "call" THEN "enumerated" ELSE "enumerated_again"
    /\ UNCHANGED <<collection, config_vars, task_vars, g_x>>

\* Lines 104-118: a call of _is_discrete(dims).
IsDiscreteCall ==
    /\ g_pc = "call"
    /\ g_out' = is_discrete_from(dimensions, 1)
    /\ g_pc' = "classified"
    /\ UNCHANGED <<collection, config_vars, task_vars, g_x>>

NextEnum == DiscreteSpaceCall \/ IsDiscreteCall

SpecEnum == InitEnum /\ [][NextEnum]_vars

\* ------------------------------------------------------------ _Z_dims alone
\* Number of documents in the collection when _Z_dims is run alone.
MaxObs == 3

\* The z values: the ints 3 and -2, the floats 2.0 and -1.0, and the labels
\* "red" and "blue"; z vectors of two items take theirs among four of them.
ZValues == {I(3), I(0 - 2), F(200), F(0 - 100), S(1), S(2)}
ZPairValues == {I(3), F(0 - 100), S(1), S(2)}

\* The z vectors of the documents: up to MaxObs of them, all of one item or
\* all of two.
Observations ==
    UNION {[1..m -> {<<a>> : a \in ZValues}]
             \cup [1..m -> {<<a, b>> : a \in ZPairValues, b \in ZPairValues}] :
           m \in 0..MaxObs}

\* _Z_dims is about to be read, the collection holding documents with the
\* observed z vectors.
InitInfer ==
    /\ dimensions = << <<I(1), I(2)>> >>
    /\ duplicate_check = "True"
    /\ max_on = FALSE
    /\ wf_creator_args = "list"
    /\ wf_creator_kwargs = "dict"
    /\ addressing = "host_port_name"
    /\ \E Z \in Observations :
          collection = [k \in 1..Len(Z) |-> NewDoc({"x", "y", "z"}, <<I(1)>>, 2, Z[k])]
    /\ n_pre = Len(collection)
    /\ TasksIdle
    /\ g_pc = "call"
    /\ g_x = PyList(<<>>)
    /\ g_out = NoOutcome

\* Lines 185-237: one read of the property _Z_dims.
ZDimsCall ==
    /\ g_pc = "call"
    /\ g_out' = _Z_dims(collection)
    /\ g_pc' = "inferred"
    /\ UNCHANGED <<collection, config_vars, task_vars, g_x>>

NextInfer == ZDimsCall

SpecInfer == InitInfer /\ [][NextInfer]_vars

\* ---------------------------------------------------------------- ManageDB
\* A document of ManageDB's collection is [input, output], two dicts from
\* keys to numbers.  None is the empty sequence and a number v is <<v>>.
EmptyDict == [k \in {} |-> 0]

\* What a call yields: a returned value (a list for get_param; min or max
\* and optima_params for get_optima), a returned None, or a KeyError.
Returned(value, params) == [kind |-> "return", value |-> value, params |-> params]
ReturnedNone == [kind |-> "None", value |-> <<>>, params |-> EmptyDict]
RaisedKeyError == [kind |-> "KeyError", value |-> <<>>, params |-> EmptyDict]

\* Lines 110-120: the loop of get_param from document k on.
RECURSIVE get_param_from(_, _, _, _)
get_param_from(coll, var, k, total_list) ==
    IF k > Len(coll) THEN Returned(total_list, EmptyDict)
    ELSE IF var \in DOMAIN coll[k].input
    THEN get_param_from(coll, var, k + 1, Append(total_list, coll[k].input[var]))
    ELSE IF var \in DOMAIN coll[k].output
    THEN get_param_from(coll, var, k + 1, Append(total_list, coll[k].output[var]))
    ELSE RaisedKeyError

get_param(coll, var) == get_param_from(coll, var, 1, <<>>)

\* A faulty variant of lines 134-149: a later document never replaces the
\* first optimum.
optima_step_first_only(st, value, input, min_or_max) ==
    IF min_or_max = "min"
    THEN IF st.min = <<>>
         THEN [st EXCEPT !.min = <<value>>, !.optima_params = input] ELSE st
    ELSE IF st.max = <<>>
         THEN [st EXCEPT !.max = <<value>>, !.optima_params = input] ELSE st

\* Lines 134-149 (and 154-169): one document's value against min or max.
optima_step(st, value, input, min_or_max) ==
    IF min_or_max = "min"
    THEN IF st.min # <<>>
         THEN IF value < st.min[1]
              THEN [st EXCEPT !.min = <<value>>, !.optima_params = input]
              ELSE st
         ELSE [st EXCEPT !.min = <<value>>, !.optima_params = input]
    ELSE IF st.max # <<>>
         THEN IF value >= st.max[1]
              THEN [st EXCEPT !.max = <<value>>, !.optima_params = input]
              ELSE st
         ELSE [st EXCEPT !.max = <<value>>, !.optima_params = input]

\* Lines 128-182 from document k on, st being min, max and optima_params.
\* With min_or_max neither 'min' nor 'max', lines 152, 172 and 182 call
\* self.get_optima(var) and drop what it returns: only its KeyError is
\* felt, and the method ends without a return statement.
RECURSIVE get_optima_from(_, _, _, _, _)
get_optima_from(coll, var, min_or_max, k, st) ==
    LET nested == get_optima_from(coll, var, "min", 1,
                                  [min |-> <<>>, max |-> <<>>, optima_params |-> EmptyDict])
        value == IF var \in DOMAIN coll[k].input
                 THEN coll[k].input[var] ELSE coll[k].output[var]
    IN IF k > Len(coll)
       THEN IF min_or_max = "max" THEN Returned(st.max, st.optima_params)
            ELSE IF min_or_max = "min" THEN Returned(st.min, st.optima_params)
            ELSE IF nested.kind = "KeyError" THEN RaisedKeyError
            ELSE ReturnedNone
       ELSE IF var \in DOMAIN coll[k].input \/ var \in DOMAIN coll[k].output
       THEN IF min_or_max \in {"min", "max"}
            THEN get_optima_from(coll, var, min_or_max, k + 1,
                                 optima_step(st, value, coll[k].input, min_or_max))
            ELSE IF nested.kind = "KeyError" THEN RaisedKeyError
            ELSE get_optima_from(coll, var, min_or_max, k + 1, st)
       ELSE RaisedKeyError

get_optima(coll, var, min_or_max) ==
    get_optima_from(coll, var, min_or_max, 1,
                    [min |-> <<>>, max |-> <<>>, optima_params |-> EmptyDict])

\* Number of documents in ManageDB's collection.
MaxDocs == 2

\* The dicts of a document: input always carries "t" and may carry "s";
\* output may carry "s".
InputDicts == UNION {[D -> 1..2] : D \in {{"t"}, {"s", "t"}}}
OutputDicts == UNION {[D -> 1..2] : D \in {{}, {"s"}}}
ManageDocs == {[input |-> i, output |-> o] : i \in InputDicts, o \in OutputDicts}

\* get_param("s") or get_optima("s", min_or_max) is about to be called.
InitManage ==
    /\ dimensions = << <<I(1), I(2)>> >>
    /\ duplicate_check = "True"
    /\ max_on = FALSE
    /\ wf_creator_args = "list"
    /\ wf_creator_kwargs = "dict"
    /\ addressing = "host_port_name"
    /\ collection \in UNION {[1..n -> ManageDocs] : n \in 0..MaxDocs}
    /\ n_pre = Len(collection)
    /\ TasksIdle
    /\ g_pc = "call"
    /\ g_x \in {[var |-> "s", min_or_max |-> m] : m \in {"min", "max", "best"}}
    /\ g_out = NoOutcome

\* Lines 104-120.
GetParamCall ==
    /\ g_pc = "call"
    /\ g_out' = get_param(collection, g_x.var)
    /\ g_pc' = "get_param"
    /\ UNCHANGED <<collection, config_vars, task_vars, g_x>>

\* Lines 122-182.
GetOptimaCall ==
    /\ g_pc = "call"
    /\ g_out' = get_optima(collection, g_x.var, g_x.min_or_max)
    /\ g_pc' = "get_optima"
    /\ UNCHANGED <<collection, config_vars, task_vars, g_x>>

NextManage == GetParamCall \/ GetOptimaCall

SpecManage == InitManage /\ [][NextManage]_vars

\* ------------------------------------------------- claims on _dupe_check
\* Two points are equal when their items compare equal, position by position.
SamePoint(u, v) == ItemsEq(u, v)

\* The history holds a point equal to v.
InHistory(v) == \E k \in 1..Len(collection) : SamePoint(collection[k].x, v)

\* C1: on a totally discrete space, _dupe_check either fails with the
\* exhausted-space error or returns a point equal to the x of no record of
\* the history.
C1_ResolveAvoidsHistory ==
    g_pc = "returned" =>
        \/ g_out.kind = "ExhaustedSpace"
        \/ g_out.kind = "ok" /\ ~InHistory(g_out.val.v)

\* C3: a candidate that lies in the declared space and equals no history
\* point is returned unchanged.
C3_FreshCandidateReturned ==
    (/\ g_pc = "returned"
     /\ g_x.v \in XInputs(dimensions)
     /\ ~InHistory(g_x.v))
        => g_out.kind = "ok" /\ SamePoint(g_out.val.v, g_x.v)

\* C4: when every point of the enumerated space is in the history,
\* _dupe_check fails with the exhausted-space error.
C4_ExhaustedSpaceFails ==
    (/\ g_pc = "returned"
     /\ \A v \in XInputs(dimensions) : InHistory(v))
        => g_out.kind = "ExhaustedSpace"

\* ------------------------------------------------------ claims on run_task
\* The candidate the predictor produced: the first len(x) items of its output.
Candidate(p) == SubSeq(x_tot_new[p].v, 1, Len(x[p]))

\* Every dimension is categorical or a range with two int bounds.
TotallyDiscrete(dims) ==
    \A i \in 1..Len(dims) :
        dims[i][1].t \in {"int", "str"} /\ dims[i][2].t \in {"int", "str"}

\* The duplicate check is requested and the declared space is discrete.
GuardRequested == duplicate_check = "True" /\ TotallyDiscrete(dimensions)

\* The invocation has inserted its document and not yet updated it.
InFlight(q) ==
    pc[q] \in {"Persisted", "HistoryRead", "SpaceBuilt", "Predicted",
               "DuplicateResolved"}

\* The step of p is its history read (lines 311-314).
ReadStep(p) == pc[p] = "Persisted" /\ pc'[p] \in {"HistoryRead", "SpaceBuilt"}

\* The invocation has made its history read.
HasRead(p) ==
    pc[p] \in {"HistoryRead", "SpaceBuilt", "Predicted", "DuplicateResolved",
               "Stored", "Done"}

\* C2: with duplicate_check true and a discrete space, a candidate of the
\* predictor that has not been evaluated before is the x_new that is
\* persisted and handed to the workflow creator.
C2_GuardGetsCandidate ==
    \A p \in Tasks :
        (/\ GuardRequested
         /\ pc[p] \in {"DuplicateResolved", "Stored", "Done"}
         /\ ~InHistory(Candidate(p)))
            => /\ SamePoint(x_new[p].v, Candidate(p))
               /\ pc[p] \in {"Stored", "Done"} =>
                     SamePoint(collection[id[p]].x_new, Candidate(p))
               /\ pc[p] = "Done" => SamePoint(action[p].x_new.v, Candidate(p))

\* C5 as claimed: the history read of an invocation leaves out the document
\* of every other invocation that has inserted and not yet updated it.
C5_InFlightExcluded ==
    [][\A p \in Tasks : ReadStep(p) =>
          \A q \in Tasks \ {p} : InFlight(q) => id[q] \notin SeqRange(seen'[p])]_vars

\* C5 as amended: the document of another invocation that has inserted and
\* not yet updated it carries x, y and z, and the history read includes it:
\* its row x+z and its score are handed to the predictor.
C5_InFlightIncluded ==
    [][\A p \in Tasks : ReadStep(p) =>
          \A q \in Tasks \ {p} : InFlight(q) =>
              \E k \in 1..Len(seen'[p]) :
                  /\ seen'[p][k] = id[q]
                  /\ X_tot'[p][k] = x[q] \o z[q]
                  /\ Y'[p][k] = (IF max_on THEN 0 - y[q] ELSE y[q])]_vars

\* A read that included the document of an invocation still in flight.
C5_Witness ==
    \E p \in Tasks : \E q \in Tasks \ {p} :
        /\ HasRead(p)
        /\ InFlight(q)
        /\ id[q] < id[p]
        /\ id[q] \in SeqRange(seen[p])
        /\ "x_new" \notin collection[id[q]].keys

\* The documents of coll that carry all of x, y and z.
CompleteDocs(coll) ==
    {k \in 1..Len(coll) : {"x", "y", "z"} \subseteq coll[k].keys}

\* The collection in another insertion order.
Reordered(coll, perm) == [k \in 1..Len(coll) |-> coll[perm[k]]]

\* C6: the history read selects exactly the documents carrying x, y and z,
\* each once, skips the others without failing, and selects the same
\* documents whatever the order of insertion.
C6_AllComplete ==
    [][\A p \in Tasks :
          /\ pc[p] = "Persisted" => pc'[p] # "Failed"
          /\ ReadStep(p) =>
               /\ SeqRange(seen'[p]) = CompleteDocs(collection)
               /\ Len(seen'[p]) = Cardinality(CompleteDocs(collection))
               /\ Len(X_tot'[p]) = Len(seen'[p])
               /\ Len(Y'[p]) = Len(seen'[p])
               /\ \A k \in 1..Len(seen'[p]) :
                     X_tot'[p][k] = collection[seen'[p][k]].x \o collection[seen'[p][k]].z
               /\ \A perm \in Permutations(1..Len(collection)) :
                     {Reordered(collection, perm)[k] :
                        k \in SeqRange(complete_ids(Reordered(collection, perm), 1))}
                     = {collection[k] : k \in CompleteDocs(collection)}]_vars

\* A read that skipped a document without z and kept two others.
C6_Witness ==
    \E p \in Tasks :
        /\ HasRead(p)
        /\ n_pre = 1
        /\ "x" \in collection[1].keys
        /\ "z" \notin collection[1].keys
        /\ 1 \notin SeqRange(seen[p])
        /\ Len(seen[p]) = 2

\* Sum of f over the tasks.
RECURSIVE SumTo(_, _)
SumTo(f, n) == IF n = 0 THEN 0 ELSE f[n] + SumTo(f, n - 1)

StepOrder ==
    { <<"Start", "Persisted">>,
      <<"Persisted", "HistoryRead">>,
      <<"Persisted", "SpaceBuilt">>,
      <<"HistoryRead", "SpaceBuilt">>,
      <<"SpaceBuilt", "Predicted">>,
      <<"Predicted", "DuplicateResolved">>,
      <<"Predicted", "Stored">>,
      <<"DuplicateResolved", "Stored">>,
      <<"Stored", "Done">> }

\* C8: an iteration takes its steps in the order Start, Persisted,
\* SpaceBuilt, Predicted, DuplicateResolved, Stored, Done, each once; only
\* DuplicateResolved is skipped, and exactly when the duplicate check is
\* not requested or the declared space is not discrete; a failure ends it.
C8_StepOrder ==
    [][\A p \in Tasks : pc'[p] # pc[p] =>
          /\ \/ <<pc[p], pc'[p]>> \in StepOrder
             \/ pc'[p] = "Failed" /\ pc[p] \notin {"Stored", "Done", "Failed"}
          /\ pc'[p] = "DuplicateResolved" => GuardRequested
          /\ (pc[p] = "Predicted" /\ pc'[p] = "Stored") => ~GuardRequested
          /\ pc'[p] = "Persisted" =>
                Len(collection') = Len(collection) + 1 /\ id'[p] = Len(collection')
          /\ pc'[p] = "Stored" =>
                /\ "x_new" \notin collection[id[p]].keys
                /\ "x_new" \in collection'[id[p]].keys
          /\ pc'[p] = "Done" => ~action[p].called /\ action'[p].called]_vars

\* An iteration has passed every step, DuplicateResolved included.
C8_Witness ==
    \E p \in Tasks :
        /\ pc[p] = "Done"
        /\ GuardRequested
        /\ available_x[p] # <<>>
        /\ z[p] # <<>>

\* C9: an iteration in which a step failed has ended with that step's
\* error, has handed nothing to the workflow creator, has written no x_new
\* or z_new, and stays failed: no step is tried again.
C9_FailureAborts ==
    /\ [](\A p \in Tasks :
            /\ pc[p] = "Failed" <=> err[p] # "none"
            /\ pc[p] = "Failed" =>
                  /\ ~action[p].called
                  /\ n_upd[p] = 0
                  /\ id[p] # 0 => collection[id[p]].keys = {"x", "y", "z"}
            /\ err[p] \in {"AttributeError", "UnboundLocalError"} => id[p] = 0
            /\ err[p] = "PredictorError" =>
                  /\ id[p] # 0
                  /\ X_tot_dims[p] # <<>>
                  /\ x_tot_new[p].v = <<>>
            /\ err[p] = "ExhaustedSpace" =>
                  /\ GuardRequested
                  /\ x_tot_new[p].v # <<>>)
    /\ [][\A p \in Tasks : pc[p] = "Failed" =>
             /\ pc'[p] = "Failed"
             /\ err'[p] = err[p]
             /\ n_ins'[p] = n_ins[p]]_vars

\* One iteration failed in the predictor, the other on the exhausted space.
C9_Witness ==
    \E p \in Tasks : \E q \in Tasks \ {p} :
        /\ pc[p] = "Failed" /\ err[p] = "PredictorError"
        /\ pc[q] = "Failed" /\ err[q] = "ExhaustedSpace"

\* C10: _dupe_check compares against evaluated x values only: a candidate
\* another iteration has stored as x_new, and that nobody has evaluated, is
\* still among the points it may return, and it reports the space exhausted
\* only when every point has been evaluated.  So two racing iterations can
\* both pass it with the same point (C10_Witness).
C10_GuardIgnoresCandidates ==
    [][\A p \in Tasks :
        /\ (pc[p] = "Predicted" /\ pc'[p] = "Failed" /\ err'[p] = "ExhaustedSpace") =>
              \A v \in XInputs(dimensions) : InHistory(v)
        /\ (pc[p] = "Predicted" /\ pc'[p] = "DuplicateResolved") =>
          /\ PyIn(x_new'[p], available_x'[p])
          /\ \A k \in 1..Len(collection) :
                (/\ "x_new" \in collection[k].keys
                 /\ collection[k].x_new \in XInputs(dimensions)
                 /\ ~InHistory(collection[k].x_new))
                    => \E j \in 1..Len(available_x'[p]) :
                          SamePoint(available_x'[p][j].v, collection[k].x_new)]_vars

\* Both iterations have passed _dupe_check, neither has stored its
\* candidate, and both hold the same point, which nobody has evaluated.
C10_Witness ==
    /\ GuardRequested
    /\ Len(dimensions) > 1
    /\ \A p \in Tasks : pc[p] = "DuplicateResolved"
    /\ SamePoint(x_new[1].v, x_new[2].v)
    /\ ~InHistory(x_new[1].v)

\* --------------- claims on _is_discrete and _calculate_discrete_space
\* A dimension of labels; a (low, high) range with two int bounds.
Categorical(dim) == \A k \in 1..Len(dim) : dim[k].t = "str"
IntRange(dim) == Len(dim) = 2 /\ dim[1].t = "int" /\ dim[2].t = "int"

\* Every dimension is categorical or an int range.
DiscreteSpace(dims) ==
    \A i \in 1..Len(dims) : Categorical(dims[i]) \/ IntRange(dims[i])

\* The number of values of a discrete dimension.
Size(dim) == IF IntRange(dim) THEN dim[2].n - dim[1].n + 1 ELSE Len(dim)

\* The product of the sizes of the dimensions i..n.
RECURSIVE ProdSizes(_, _)
ProdSizes(dims, i) ==
    IF i > Len(dims) THEN 1 ELSE Size(dims[i]) * ProdSizes(dims, i + 1)

\* _calculate_discrete_space has returned or raised.
Enumerated == g_pc \in {"enumerated", "enumerated_again"}

\* C11: on a totally discrete space of sizes s1..sn,
\* _calculate_discrete_space returns s1*...*sn points, pairwise different,
\* each of length n, and a second call on the same space returns the same
\* sequence.
C11_EnumerationSize ==
    /\ []((Enumerated /\ DiscreteSpace(dimensions)) =>
            /\ g_out.ok
            /\ Len(g_out.pts) = ProdSizes(dimensions, 1)
            /\ \A k \in 1..Len(g_out.pts) :
                  /\ Len(g_out.pts[k].v) = Len(dimensions)
                  /\ \A j \in 1..(k - 1) :
                        ~SamePoint(g_out.pts[j].v, g_out.pts[k].v))
    /\ [][(g_pc = "enumerated" /\ g_pc' = "enumerated_again") =>
             g_out' = g_out]_vars

\* The space [(2,4), ("blue","red","green")] has been enumerated twice: nine
\* points.
C11_Witness ==
    /\ g_pc = "enumerated_again"
    /\ dimensions = << <<I(2), I(4)>>, <<S(2), S(1), S(3)>> >>
    /\ Len(g_out.pts) = 9

\* The values of a discrete dimension, in order.
DimVals(dim) ==
    IF IntRange(dim) THEN [k \in 1..Size(dim) |-> I(dim[1].n + k - 1)] ELSE dim

\* C12: the points come in Cartesian-product order over the dimensions in
\* declared order, the last dimension varying fastest: item i of point k is
\* the value of dimension i at the place k's rank has among the points that
\* share its earlier items; a single dimension gives its values in order,
\* one per point.  [(1,2), ("red","blue")] gives (1,red), (1,blue), (2,red),
\* (2,blue).
C12_ProductOrder ==
    (g_pc = "enumerated" /\ DiscreteSpace(dimensions)) =>
        /\ \A k \in 1..Len(g_out.pts) : \A i \in 1..Len(dimensions) :
              g_out.pts[k].v[i] =
                 DimVals(dimensions[i])
                    [(((k - 1) \div ProdSizes(dimensions, i + 1))
                         % Size(dimensions[i])) + 1]
        /\ Len(dimensions) = 1 =>
              /\ Len(g_out.pts) = Size(dimensions[1])
              /\ \A k \in 1..Len(g_out.pts) :
                    g_out.pts[k].v = <<DimVals(dimensions[1])[k]>>
        /\ dimensions = << <<I(1), I(2)>>, <<S(1), S(2)>> >> =>
              [k \in 1..Len(g_out.pts) |-> g_out.pts[k].v] =
                 << <<I(1), S(1)>>, <<I(1), S(2)>>,
                    <<I(2), S(1)>>, <<I(2), S(2)>> >>

\* [(1,2), ("red","blue")] has been enumerated; its second point is (1, blue).
C12_Witness ==
    /\ g_pc = "enumerated"
    /\ dimensions = << <<I(1), I(2)>>, <<S(1), S(2)>> >>
    /\ g_out.pts[2].v = <<I(1), S(2)>>

\* C13: on a space that is not totally discrete, that is with a float lower
\* or upper bound in some dimension, _calculate_discrete_space raises the
\* ValueError of line 147 (the space is infinite) and returns no points.
C13_NonDiscreteRaisesValueError ==
    (g_pc = "enumerated" /\ ~DiscreteSpace(dimensions)) =>
        /\ ~g_out.ok
        /\ g_out.err = "ValueError"
        /\ g_out.pts = <<>>

\* C14: _is_discrete returns True exactly when every dimension is
\* categorical or a range with two int bounds, and False otherwise.
C14_DiscreteIffAllDiscrete ==
    g_pc = "classified" =>
        /\ g_out \in {"True", "False"}
        /\ g_out = "True" <=> DiscreteSpace(dimensions)

\* ------------------------------------------------------- claims on _Z_dims
\* The z vectors observed, in the order of the collection.
Observed == [k \in 1..Len(collection) |-> collection[k].z]

\* Five per cent of a float given in hundredths (the z values are multiples
\* of 0.20, so the division is exact).
FivePercent(n) == n \div 20

Lower(a, b) == IF a <= b THEN a ELSE b
Higher(a, b) == IF a <= b THEN b ELSE a

\* C15: from exactly one observation, an int v gives the bounds (v-1, v+1)
\* and a float v gives v less and plus 5% of v, the smaller of the two
\* first, so that low <= high.
C15_SingleObservationWidened ==
    (g_pc = "inferred" /\ Len(collection) = 1) =>
        /\ g_out.err = "none"
        /\ Len(g_out.dims) = Len(Observed[1])
        /\ \A i \in 1..Len(Observed[1]) :
              LET v == Observed[1][i]
              IN /\ v.t = "int" => g_out.dims[i] = <<I(v.n - 1), I(v.n + 1)>>
                 /\ v.t = "float" =>
                       g_out.dims[i] =
                          <<F(Lower(v.n - FivePercent(v.n), v.n + FivePercent(v.n))),
                            F(Higher(v.n - FivePercent(v.n), v.n + FivePercent(v.n)))>>
                 /\ v.t \in {"int", "float"} =>
                       Num(g_out.dims[i][1]) <= Num(g_out.dims[i][2])

\* The one observation [-1.0] has given the bounds (-1.05, -0.95).
C15_Witness ==
    /\ g_pc = "inferred"
    /\ Observed = << <<F(0 - 100)>> >>
    /\ g_out.dims = << <<F(0 - 105), F(0 - 95)>> >>

\* The values observed at position i, in the order of the collection.
Column(i) == [k \in 1..Len(Observed) |-> Observed[k][i]]

NumericPosition(i) == \A k \in 1..Len(Observed) : Observed[k][i].t \in {"int", "float"}
CategoricalPosition(i) == \A k \in 1..Len(Observed) : Observed[k][i].t = "str"

\* The least and the greatest of the numbers of a column, in hundredths.
MinOf(col) == CHOOSE a \in {Num(col[k]) : k \in 1..Len(col)} :
                 \A k \in 1..Len(col) : a <= Num(col[k])
MaxOf(col) == CHOOSE a \in {Num(col[k]) : k \in 1..Len(col)} :
                 \A k \in 1..Len(col) : a >= Num(col[k])

\* The items of a sequence without repetition, in first-seen order.
RECURSIVE FirstSeen(_)
FirstSeen(seq) ==
    IF seq = <<>> THEN <<>>
    ELSE LET front == FirstSeen(SubSeq(seq, 1, Len(seq) - 1))
             last == seq[Len(seq)]
         IN IF \E k \in 1..Len(front) : front[k] = last
            THEN front ELSE Append(front, last)

\* C16: from two or more observations, the dimension of each numeric
\* position is exactly (least observed value, greatest observed value).
C16_BoundsAreMinMax ==
    (g_pc = "inferred" /\ Len(collection) >= 2 /\ g_out.err = "none") =>
        \A i \in 1..Len(Observed[1]) :
            NumericPosition(i) =>
                /\ Len(g_out.dims[i]) = 2
                /\ Num(g_out.dims[i][1]) = MinOf(Column(i))
                /\ Num(g_out.dims[i][2]) = MaxOf(Column(i))

\* C17: the dimension of each categorical position is the labels observed
\* at that position, each once, in first-seen order, whatever the labels of
\* the other positions.
C17_LabelsPerPosition ==
    (g_pc = "inferred" /\ Len(collection) >= 1 /\ g_out.err = "none") =>
        \A i \in 1..Len(Observed[1]) :
            CategoricalPosition(i) => g_out.dims[i] = FirstSeen(Column(i))

\* -------------------------------------------- further claims on run_task
\* The dimensions handed to the predictor have been built (line 321).
SpaceBuilt(p) ==
    pc[p] \in {"SpaceBuilt", "Predicted", "DuplicateResolved", "Stored", "Done"}

\* C18: when a document of the history carries a non-empty z, the
\* dimensions handed to the predictor are as many as the items of that
\* document's row x+z, whether the invocation's own z is empty or not.
C18_CombinedSpaceCoversZ ==
    \A p \in Tasks :
        SpaceBuilt(p) =>
            \A k \in 1..Len(seen[p]) :
                collection[seen[p][k]].z # <<>> =>
                    /\ Len(X_tot_dims[p]) =
                          Len(dimensions) + Len(collection[seen[p][k]].z)
                    /\ Len(X_tot_dims[p]) = Len(X_tot[p][k])

\* The task names no complete way to the database: only some of host, port
\* and name, or none of them and no lpad (with or without the
\* _add_launchpad_and_fw_id flag in fw_spec).
NoCompleteAddressing == addressing \in {"partial", "fw_spec_flag", "none"}

\* The two argument parameters pass the type checks the claim gives them.
ArgumentsWellTyped ==
    wf_creator_args \in {"list", "tuple"} /\ wf_creator_kwargs = "dict"

\* C19: an invocation without a complete way to the database fails with the
\* configuration error (AttributeError), and inserts no document.
C19_IncompleteAddressingFails ==
    \A p \in Tasks :
        (pc[p] # "Start" /\ wf_creator_args = "list" /\ wf_creator_kwargs = "dict"
            /\ NoCompleteAddressing) =>
            /\ pc[p] = "Failed"
            /\ err[p] = "AttributeError"
            /\ id[p] = 0
            /\ n_ins[p] = 0

\* C20: a list or a tuple is accepted as wf_creator_args and a dict as
\* wf_creator_kwargs; TypeError is raised exactly when one of them is of
\* another kind; the accepted values are handed to wf_creator as they are,
\* with the candidate.
C20_ArgumentTypes ==
    \A p \in Tasks :
        pc[p] # "Start" =>
            /\ err[p] = "TypeError" <=> ~ArgumentsWellTyped
            /\ pc[p] = "Done" =>
                  /\ action[p].called
                  /\ action[p].args = wf_creator_args
                  /\ action[p].kwargs = wf_creator_kwargs
                  /\ action[p].x_new = x_new[p]

\* C21: when a custom predictor raises, the iteration fails with the error
\* of line 335, formatted with the predictor's name and the message of the
\* exception that function raised; no candidate comes out of it and nothing
\* is handed to the workflow creator.  A failure of the predictor step is
\* never any other error.
C21_CustomPredictorErrorWrapped ==
    /\ [](\A p \in Tasks :
            /\ err[p] = "PredictorError" =>
                  /\ pc[p] = "Failed"
                  /\ err_args[p].predictor \in Predictors
                  /\ raised(err_args[p].predictor) # "none"
                  /\ err_args[p].E = raised(err_args[p].predictor)
                  /\ x_tot_new[p].v = <<>>
                  /\ x_new[p].v = <<>>
                  /\ ~action[p].called
                  /\ "x_new" \notin collection[id[p]].keys
            /\ err[p] # "PredictorError" => err_args[p] = NoArgs)
    /\ [][\A p \in Tasks :
            (pc[p] = "SpaceBuilt" /\ pc'[p] = "Failed") =>
                err'[p] = "PredictorError"]_vars

\* An invocation has failed on the KeyError('k') of its custom predictor.
C21_Witness ==
    \E p \in Tasks :
        /\ pc[p] = "Failed"
        /\ err[p] = "PredictorError"
        /\ err_args[p] = [predictor |-> "custom.raises_KeyError", E |-> "'k'"]

\* ------------------------------------------------------ claims on ManageDB
\* Document k carries the key on its input or its output side.
Carries(k, key) ==
    key \in DOMAIN collection[k].input \/ key \in DOMAIN collection[k].output

\* The key's value in document k: the input side first, the output side
\* second.
ValueOf(k, key) ==
    IF key \in DOMAIN collection[k].input
    THEN collection[k].input[key] ELSE collection[k].output[key]

\* get_param, or get_optima with 'min' or 'max', has been called.
Queried ==
    \/ g_pc = "get_param"
    \/ g_pc = "get_optima" /\ g_x.min_or_max \in {"min", "max"}

\* C22: a query on a collection with documents raises KeyError exactly when
\* no document carries the key on either side; the values it reads are
\* taken from the input side first.
C22_KeyErrorIffAbsentEverywhere ==
    (Queried /\ Len(collection) >= 1) =>
        /\ g_out.kind = "KeyError" <=>
              \A k \in 1..Len(collection) : ~Carries(k, g_x.var)
        /\ (g_pc = "get_param" /\ g_out.kind = "return") =>
              g_out.value = [k \in 1..Len(collection) |-> ValueOf(k, g_x.var)]

\* C23: get_optima with 'min' or 'max', on a collection with documents that
\* all carry the key, returns (v, p): v the least (greatest) of the key's
\* values and p the input of a document whose value is v.
C23_OptimumAndItsInput ==
    (/\ g_pc = "get_optima"
     /\ g_x.min_or_max \in {"min", "max"}
     /\ Len(collection) >= 1
     /\ \A k \in 1..Len(collection) : Carries(k, g_x.var)) =>
        /\ g_out.kind = "return"
        /\ Len(g_out.value) = 1
        /\ \A k \in 1..Len(collection) :
              IF g_x.min_or_max = "min"
              THEN g_out.value[1] <= ValueOf(k, g_x.var)
              ELSE g_out.value[1] >= ValueOf(k, g_x.var)
        /\ \E k \in 1..Len(collection) :
              /\ ValueOf(k, g_x.var) = g_out.value[1]
              /\ g_out.params = collection[k].input

\* get_optima("s", "max") on two documents, the greater value in the
\* second one's output, has returned that value with the second input.
C23_Witness ==
    /\ g_pc = "get_optima"
    /\ g_x.min_or_max = "max"
    /\ Len(collection) = 2
    /\ "s" \notin DOMAIN collection[2].input
    /\ Carries(1, "s") /\ Carries(2, "s")
    /\ ValueOf(1, "s") = 1
    /\ ValueOf(2, "s") = 2
    /\ g_out = Returned(<<2>>, collection[2].input)

\* C29: get_optima with a min_or_max that is neither 'min' nor 'max'
\* returns what get_optima(var, 'min') returns on the same collection.
C29_InvalidOptionGivesMinimum ==
    (g_pc = "get_optima" /\ g_x.min_or_max \notin {"min", "max"}) =>
        g_out = get_optima(collection, g_x.var, "min")

\* ----------------------------------------------- more claims on run_task
\* C24: the predictor's Y holds each history score as stored when max is
\* unset or false and its negation when max is true; the y stored in an
\* invocation's document is the score it was given, and no step changes
\* the y of a document.
C24_ScoresNegatedForMax ==
    /\ [](\A p \in Tasks :
            /\ HasRead(p) =>
                  /\ Len(Y[p]) = Len(seen[p])
                  /\ \A k \in 1..Len(seen[p]) :
                        Y[p][k] = IF max_on THEN 0 - collection[seen[p][k]].y
                                  ELSE collection[seen[p][k]].y
            /\ id[p] # 0 =>
                  /\ y[p] \in YInputs
                  /\ collection[id[p]].y = y[p])
    /\ [][\A k \in 1..Len(collection) : collection'[k].y = collection[k].y]_vars

\* With max true, an invocation given the score 2 has stored 2 and read -2
\* for its own document.
C24_Witness ==
    \E p \in Tasks :
        /\ HasRead(p)
        /\ max_on
        /\ collection[id[p]].y = 2
        /\ \E k \in 1..Len(seen[p]) : seen[p][k] = id[p] /\ Y[p][k] = 0 - 2

\* C25: an invocation that is Done has handed on the id of the document it
\* inserted itself, never that of another invocation, and has called
\* wf_creator with the x_new stored in that document.
C25_DoneYieldsOwnRecord ==
    /\ [](\A p \in Tasks :
            pc[p] = "Done" =>
                /\ action[p].called
                /\ action[p].optimization_id = id[p]
                /\ id[p] \in (n_pre + 1)..Len(collection)
                /\ \A q \in Tasks \ {p} : action[p].optimization_id # id[q]
                /\ collection[action[p].optimization_id].x = x[p]
                /\ collection[action[p].optimization_id].y = y[p]
                /\ "x_new" \in collection[action[p].optimization_id].keys
                /\ SamePoint(action[p].x_new.v,
                             collection[action[p].optimization_id].x_new))
    /\ [][\A p \in Tasks :
            (pc[p] = "Start" /\ pc'[p] = "Persisted") =>
                /\ id'[p] = Len(collection) + 1
                /\ Len(collection') = Len(collection) + 1
                /\ collection'[id'[p]].x = x'[p]]_vars

\* Both invocations are Done; the one that inserted first has handed on its
\* own id, not the last one.
C25_Witness ==
    \E p \in Tasks : \E q \in Tasks \ {p} :
        /\ pc[p] = "Done" /\ pc[q] = "Done"
        /\ id[p] < id[q]
        /\ action[p].optimization_id = id[p]
        /\ action[p].x_new.v # <<>>

\* The invocation has ended, with a result or with an exception.
Ended(p) == pc[p] \in {"Done", "Failed"}

\* C26: every invocation that has started ends, Done or failed, whatever
\* the other invocations do; until then its next step is always possible,
\* whether or not another invocation stands between its insert and its
\* update.
C26_EveryIterationEnds ==
    /\ \A p \in Tasks : (pc[p] # "Start") ~> Ended(p)
    /\ [](\A p \in Tasks : ~Ended(p) => ENABLED run_task(p))

\* An invocation is Done while the other one has inserted its document and
\* not yet updated it.
C26_Witness ==
    \E p \in Tasks : \E q \in Tasks \ {p} :
        /\ pc[p] = "Done"
        /\ InFlight(q)
        /\ id[q] < id[p]

\* C27: when duplicate_check is absent or false, or the declared space is
\* not totally discrete, _dupe_check is never run (no invocation stands at
\* DuplicateResolved or holds an enumerated space), and once an invocation
\* has stored, its document's x_new is the first len(x) items of the
\* predictor's output and its z_new the remaining items; the x_new handed
\* to wf_creator is that same prefix.
C27_NoGuardKeepsPrediction ==
    ~GuardRequested =>
        \A p \in Tasks :
            /\ pc[p] # "DuplicateResolved"
            /\ available_x[p] = <<>>
            /\ pc[p] \in {"Stored", "Done"} =>
                  /\ collection[id[p]].x_new = Candidate(p)
                  /\ collection[id[p]].z_new =
                        SubSeq(x_tot_new[p].v, Len(x[p]) + 1, Len(x_tot_new[p].v))
                  /\ Len(collection[id[p]].x_new) = Len(x[p])
                  /\ collection[id[p]].x_new \o collection[id[p]].z_new
                        = x_tot_new[p].v
            /\ pc[p] = "Done" => action[p].x_new.v = Candidate(p)

\* An invocation on the float space, duplicate_check being True, has
\* returned with a z_new of one item.
C27_Witness ==
    \E p \in Tasks :
        /\ pc[p] = "Done"
        /\ ~GuardRequested
        /\ duplicate_check = "True"
        /\ collection[id[p]].z_new # <<>>
        /\ collection[id[p]].x_new # <<>>

\* The fields x, y and z of document k are the same before and after a step.
KeepsXYZ(k) ==
    /\ collection'[k].x = collection[k].x
    /\ collection'[k].y = collection[k].y
    /\ collection'[k].z = collection[k].z
    /\ collection[k].keys \cap {"x", "y", "z"}
          = collection'[k].keys \cap {"x", "y", "z"}

\* C28: the update of an invocation changes its own document only, adding
\* x_new and z_new to the fields it has and leaving x, y and z as they are;
\* every other document stays as it is, field by field; and no step of any
\* invocation ever changes the x, y or z of a document already inserted.
C28_UpdateIsPartialMerge ==
    [][/\ \A k \in 1..Len(collection) : k <= Len(collection') /\ KeepsXYZ(k)
       /\ \A p \in Tasks :
             (pc[p] # "Stored" /\ pc'[p] = "Stored") =>
                 /\ Len(collection') = Len(collection)
                 /\ \A k \in 1..Len(collection) :
                       k # id[p] => collection'[k] = collection[k]
                 /\ collection'[id[p]].keys
                       = collection[id[p]].keys \cup {"x_new", "z_new"}
                 /\ {"x", "y", "z"} \subseteq collection'[id[p]].keys
                 /\ collection'[id[p]].x = x[p]
                 /\ collection'[id[p]].y = y[p]
                 /\ collection'[id[p]].z = z[p]
                 /\ collection'[id[p]].x_new = x_new[p].v
                 /\ collection'[id[p]].z_new = z_new[p].v]_vars

\* Both invocations have updated, and each document holds its own x, the
\* first with a z of one item.
C28_Witness ==
    \E p \in Tasks : \E q \in Tasks \ {p} :
        /\ pc[p] \in {"Stored", "Done"} /\ pc[q] \in {"Stored", "Done"}
        /\ id[p] < id[q]
        /\ collection[id[p]].z # <<>>
        /\ {"x", "y", "z", "x_new", "z_new"} \subseteq collection[id[p]].keys
        /\ {"x", "y", "z", "x_new", "z_new"} \subseteq collection[id[q]].keys
        /\ collection[id[p]].x = x[p]
        /\ collection[id[q]].x = x[q]

\* The invocation failed after its insert.
FailedAfterInsert(p) == pc[p] = "Failed" /\ id[p] # 0

\* C30: an invocation that failed after its insert, in the predictor or on
\* the exhausted space, has left its document with x, y and z and without
\* x_new and z_new; every history read made afterwards holds that document's
\* x, z and y, and every duplicate check made afterwards by an invocation
\* that inserted later treats that x as evaluated: it is not among the
\* points left available and it is not the point returned.
C30_FailedRecordCountsAsHistory ==
    /\ [](\A p \in Tasks : FailedAfterInsert(p) =>
             /\ id[p] <= Len(collection)
             /\ collection[id[p]].keys = {"x", "y", "z"}
             /\ collection[id[p]].x = x[p]
             /\ collection[id[p]].y = y[p]
             /\ collection[id[p]].z = z[p])
    /\ [][\A p \in Tasks : \A q \in Tasks \ {p} :
             FailedAfterInsert(p) =>
                 /\ ReadStep(q) =>
                       \E k \in 1..Len(seen'[q]) :
                           /\ seen'[q][k] = id[p]
                           /\ X_tot'[q][k] = x[p] \o z[p]
                 /\ (pc[q] = "Predicted" /\ pc'[q] = "DuplicateResolved"
                        /\ id[p] < id[q]) =>
                       /\ \A k \in 1..Len(available_x'[q]) :
                             ~SamePoint(available_x'[q][k].v, x[p])
                       /\ ~SamePoint(x_new'[q].v, x[p])]_vars

\* The history the invocation read holds, at place k, its own row.
OwnRowAt(p, k) ==
    /\ seen[p][k] = id[p]
    /\ X_tot[p][k] = x[p] \o z[p]
    /\ Y[p][k] = (IF max_on THEN 0 - y[p] ELSE y[p])

\* The collection holds the document p inserted, with p's x, y and z.
HasOwnDocument(p) ==
    /\ id[p] \in 1..Len(collection)
    /\ {"x", "y", "z"} \subseteq collection[id[p]].keys
    /\ collection[id[p]].x = x[p]
    /\ collection[id[p]].y = y[p]
    /\ collection[id[p]].z = z[p]

\* The step of p is the call of the predictor, returning or raising.
PredictStep(p) ==
    /\ pc[p] = "SpaceBuilt"
    /\ \/ pc'[p] = "Predicted"
       \/ pc'[p] = "Failed" /\ err'[p] = "PredictorError"

\* The step of p is the call of _dupe_check, returning or raising.
GuardStep(p) ==
    /\ pc[p] = "Predicted"
    /\ pc'[p] \in {"DuplicateResolved", "Failed"}

\* C31: the insert comes before the history read, so the X and Y an
\* invocation has read hold its own row x + z with its score (negated when
\* max is on), once; the predictor is never called with an empty X or Y;
\* and the collection _dupe_check reads holds the invocation's own document
\* with its x.
C31_OwnRowInHistory ==
    /\ [](\A p \in Tasks : HasRead(p) =>
             /\ Len(X_tot[p]) = Len(Y[p])
             /\ Len(X_tot[p]) = Len(seen[p])
             /\ Len(X_tot[p]) >= 1
             /\ Cardinality({k \in 1..Len(seen[p]) : OwnRowAt(p, k)}) = 1)
    /\ [][\A p \in Tasks :
             /\ ReadStep(p) => id[p] # 0 /\ HasOwnDocument(p)
             /\ PredictStep(p) =>
                   /\ X_tot[p] # <<>> /\ Y[p] # <<>>
                   /\ \E k \in 1..Len(X_tot[p]) : OwnRowAt(p, k)
             /\ GuardStep(p) => HasOwnDocument(p)]_vars

\* An invocation whose insert came after another's read has called the
\* predictor on a history of two rows or more, its own row not the first,
\* and then _dupe_check; the other's history does not hold that row.
C31_Witness ==
    \E p \in Tasks : \E q \in Tasks \ {p} :
        /\ pc[p] \in {"DuplicateResolved", "Stored", "Done"}
        /\ available_x[p] # <<>>
        /\ Len(X_tot[p]) >= 2
        /\ ~OwnRowAt(p, 1)
        /\ HasRead(q)
        /\ \A k \in 1..Len(seen[q]) : seen[q][k] # id[p]
====
